---- MODULE Spec2Model ----
(***************************************************************************)
(* A model of the yoshino object-relational layer: the Schema contract of  *)
(* core/src/types.rs and the SQLite adaptor of sqlite/src/lib.rs, driven   *)
(* against a model of the native engine the adaptor calls.                 *)
(***************************************************************************)
EXTENDS Integers, Sequences, FiniteSets, TLC

\* Bounds of the model.
MaxRows == 3
MaxIters == 1

(***************************************************************************)
(* Values.  Every value is a record of one shape so that any two values    *)
(* can be compared: t is the variant, i the integer and s the text payload.*)
(***************************************************************************)
V(t, i, s) == [t |-> t, i |-> i, s |-> s]

\* Column values of the engine.
NullV == V("NULL", 0, "")
IntV(n) == V("INTEGER", n, "")
TextV(x) == V("TEXT", 0, x)

\* Native (Rust) field values.
RNone == V("None", 0, "")
RSomeInt(n) == V("Some", n, "")
RSomeText(x) == V("Some", 0, x)
RInt(n) == V("i64", n, "")
RString(x) == V("String", 0, x)
RowID_NEW == V("NEW", 0, "")
RowID_ID(n) == V("ID", n, "")

(***************************************************************************)
(* Schemas.  Counter is test_app's; Note has a RowID field, as the user    *)
(* crate's User has, and a NullableText field; Pair has two RowID fields.  *)
(***************************************************************************)
F(name, type) == [name |-> name, type |-> type]

Schemas == {"Counter", "Note", "Pair"}

get_fields(T) ==
    CASE T = "Counter" -> << F("name", "Text"), F("stock", "NullableInt") >>
      [] T = "Note" -> << F("id", "RowID"), F("memo", "NullableText") >>
      [] T = "Pair" -> << F("a", "RowID"), F("b", "RowID") >>

\* The records the callers insert, as field values in the order of get_fields.
Records(T) ==
    CASE T = "Counter" -> { << RString("milk"), RSomeInt(20) >>,
                            << RString("cream"), RNone >>,
                            << RString("apple"), RSomeInt(30) >> }
      [] T = "Note" -> { << RowID_NEW, RNone >>,
                         << RowID_ID(1), RSomeText("hi") >> }
      [] T = "Pair" -> { << RowID_NEW, RowID_NEW >> }

(***************************************************************************)
(* DbData: the type-erased box of a field value.  null is whether          *)
(* db_data_ptr() is the null pointer.                                      *)
(***************************************************************************)
Box(type, null, i, s) == [type |-> type, null |-> null, i |-> i, s |-> s]

to_boxed_db_data(type, v) ==
    Box(type, v.t \in {"None", "NEW"}, v.i, v.s)

get_values(T, rec) ==
    [k \in 1..Len(rec) |-> to_boxed_db_data(get_fields(T)[k].type, rec[k])]

\* The conversion of a decoded box back into a field of the declared kind.
from_boxed_db_data(type, b) ==
    CASE type = "Int" -> RInt(b.i)
      [] type = "NullableInt" -> IF b.null THEN RNone ELSE RSomeInt(b.i)
      [] type = "Text" -> RString(b.s)
      [] type = "NullableText" -> IF b.null THEN RNone ELSE RSomeText(b.s)
      [] type = "RowID" -> IF b.null THEN RowID_NEW ELSE RowID_ID(b.i)

create_with_values(T, values) ==
    [k \in 1..Len(values) |-> from_boxed_db_data(get_fields(T)[k].type, values[k])]

(***************************************************************************)
(* Schema::get_row_id_field: the loop over the fields, the answer so far   *)
(* carried along; "Panic" once a second RowID field is met.                *)
(***************************************************************************)
NoAnswer == [kind |-> "None", name |-> "", value |-> RNone]

RECURSIVE row_id_loop(_, _, _, _)
row_id_loop(fields, values, i, answer) ==
    IF i > Len(fields) THEN answer
    ELSE IF fields[i].type = "RowID"
         THEN IF answer.kind = "None"
              THEN row_id_loop(fields, values, i + 1,
                       [kind |-> "Some", name |-> fields[i].name,
                        value |-> from_boxed_db_data("RowID", values[i])])
              ELSE [kind |-> "Panic", name |-> "", value |-> RNone]
         ELSE row_id_loop(fields, values, i + 1, answer)

get_row_id_field(T, rec) ==
    row_id_loop(get_fields(T), get_values(T, rec), 1, NoAnswer)

RowIDCount(T) ==
    Cardinality({k \in 1..Len(get_fields(T)) : get_fields(T)[k].type = "RowID"})

(***************************************************************************)
(* Statement text.  A statement is kept as its parts (verb, table, column  *)
(* list, placeholders, WHERE expression) instead of one string; the column *)
(* declarations are the strings the code emits.                            *)
(***************************************************************************)
Sql(verb, table, cols, params, where) ==
    [verb |-> verb, table |-> table, cols |-> cols, params |-> params,
     where |-> where]

Col(name, decl) == [name |-> name, decl |-> decl]

column_decl(field_type) ==
    CASE field_type = "Int" -> " INTEGER NOT NULL"
      [] field_type = "NullableInt" -> "INTEGER"
      [] field_type = "Text" -> "TEXT NOT NULL"
      [] field_type = "NullableText" -> "TEXT"
      [] field_type = "RowID" -> "INTEGER PRIMARY KEY"

get_create_table_stmt_code(schema_name, fields) ==
    Sql("CREATE TABLE IF NOT EXISTS", schema_name,
        [i \in 1..Len(fields) |-> Col(fields[i].name, column_decl(fields[i].type))],
        <<>>, <<>>)

get_insert_value_stmt_code(schema_name, fields) ==
    Sql("INSERT INTO", schema_name,
        [i \in 1..Len(fields) |-> Col(fields[i].name, "")],
        [i \in 1..Len(fields) |-> i], <<>>)

get_query_stmt(schema_name, fields) ==
    Sql("SELECT", schema_name,
        [i \in 1..Len(fields) |-> Col(fields[i].name, "")],
        <<>>, <<>>)

(***************************************************************************)
(* The condition algebra and its rendering to a parameterized WHERE        *)
(* expression: every literal becomes a placeholder and a bound parameter.  *)
(***************************************************************************)
Cond(node, column, op, lit, kids) ==
    [node |-> node, column |-> column, op |-> op, lit |-> lit, kids |-> kids]

is_null(column) == Cond("Comparison", column, "IsNull", NullV, <<>>)
integer_equal_to(column, n) == Cond("Comparison", column, "EqualsInteger", IntV(n), <<>>)
text_equal_to(column, x) == Cond("Comparison", column, "EqualsText", TextV(x), <<>>)
or(a, b) == Cond("Logical", "", "Or", NullV, <<a, b>>)
and(a, b) == Cond("Logical", "", "And", NullV, <<a, b>>)

Expr(node, column, ph, kids) ==
    [node |-> node, column |-> column, ph |-> ph, kids |-> kids]

logical_keyword(op) == IF op = "Or" THEN "OR" ELSE "AND"

\* The rendering of c, the first free placeholder being next: the expression
\* and the parameters to bind, in placeholder order.
RECURSIVE render_cond(_, _)
render_cond(c, next) ==
    IF c.node = "Comparison"
    THEN IF c.op = "IsNull"
         THEN [expr |-> Expr("IS NULL", c.column, 0, <<>>), binds |-> <<>>]
         ELSE [expr |-> Expr("=", c.column, next, <<>>), binds |-> <<c.lit>>]
    ELSE LET l == render_cond(c.kids[1], next)
             r == render_cond(c.kids[2], next + Len(l.binds))
         IN [expr |-> Expr(logical_keyword(c.op), "", 0, <<l.expr, r.expr>>),
             binds |-> l.binds \o r.binds]

get_query_with_cond_stmt(schema_name, fields, c) ==
    Sql("SELECT", schema_name,
        [i \in 1..Len(fields) |-> Col(fields[i].name, "")],
        <<>>, <<render_cond(c, 1).expr>>)

(***************************************************************************)
(* The native engine the adaptor calls.  A table is [exists, cols, rows];  *)
(* a row is [rid, vals], rid being the engine's row id, and a scan visits  *)
(* the rows in rid order.                                                  *)
(***************************************************************************)
NoTable == [exists |-> FALSE, cols |-> <<>>, rows |-> {}]

Max(S) == IF S = {} THEN 0 ELSE CHOOSE x \in S : \A y \in S : y <= x
Min(S) == CHOOSE x \in S : \A y \in S : x <= y

PrimaryKeys(cols) == {k \in 1..Len(cols) : cols[k].decl = "INTEGER PRIMARY KEY"}
NotNullCols(cols) ==
    {k \in 1..Len(cols) : cols[k].decl \in {" INTEGER NOT NULL", "TEXT NOT NULL"}}
ColPos(cols, name) == CHOOSE k \in 1..Len(cols) : cols[k].name = name
HasCol(cols, name) == \E k \in 1..Len(cols) : cols[k].name = name

\* sqlite3_prepare_v2: whether a statement handle comes back (SQLITE_OK); the
\* handle stays null otherwise.
sqlite3_prepare_v2(c, tbls, sql) ==
    /\ c = "open"
    /\ CASE sql.verb = "CREATE TABLE IF NOT EXISTS" ->
                tbls[sql.table].exists \/ Cardinality(PrimaryKeys(sql.cols)) <= 1
         [] OTHER -> tbls[sql.table].exists

\* sqlite3_step of a CREATE TABLE IF NOT EXISTS statement.
exec_ddl(tbls, sql) ==
    IF tbls[sql.table].exists THEN tbls
    ELSE [tbls EXCEPT ![sql.table] =
              [exists |-> TRUE, cols |-> sql.cols, rows |-> {}]]

\* sqlite3_step of an INSERT whose placeholders hold bound (position -> value,
\* NULL where nothing was bound): the result code and the tables after it.
exec_insert(tbls, sql, bound) ==
    LET t == tbls[sql.table]
        given == [k \in 1..Len(t.cols) |->
                    IF HasCol(sql.cols, t.cols[k].name)
                    THEN bound[sql.params[ColPos(sql.cols, t.cols[k].name)]]
                    ELSE NullV]
        pk == PrimaryKeys(t.cols)
        rids == {r.rid : r \in t.rows}
        rid == IF \E k \in pk : given[k].t # "NULL"
               THEN given[CHOOSE k \in pk : TRUE].i
               ELSE Max(rids) + 1
        vals == [k \in 1..Len(t.cols) |-> IF k \in pk THEN IntV(rid) ELSE given[k]]
        bad == \/ \E k \in NotNullCols(t.cols) : vals[k].t = "NULL"
               \/ rid \in rids
    IN IF bad THEN [rc |-> "SQLITE_CONSTRAINT", tables |-> tbls]
       ELSE [rc |-> "SQLITE_DONE",
             tables |-> [tbls EXCEPT ![sql.table].rows =
                            @ \cup {[rid |-> rid, vals |-> vals]}]]

\* The WHERE expression on a row, in the engine's three-valued logic.
RECURSIVE eval_where(_, _, _, _)
eval_where(e, binds, cols, vals) ==
    CASE e.node = "IS NULL" ->
            IF vals[ColPos(cols, e.column)].t = "NULL" THEN "T" ELSE "F"
      [] e.node = "=" ->
            IF vals[ColPos(cols, e.column)].t = "NULL" \/ binds[e.ph].t = "NULL"
            THEN "U"
            ELSE IF vals[ColPos(cols, e.column)] = binds[e.ph] THEN "T" ELSE "F"
      [] e.node = "OR" ->
            LET l == eval_where(e.kids[1], binds, cols, vals)
                r == eval_where(e.kids[2], binds, cols, vals)
            IN IF l = "T" \/ r = "T" THEN "T"
               ELSE IF l = "F" /\ r = "F" THEN "F" ELSE "U"
      [] e.node = "AND" ->
            LET l == eval_where(e.kids[1], binds, cols, vals)
                r == eval_where(e.kids[2], binds, cols, vals)
            IN IF l = "F" \/ r = "F" THEN "F"
               ELSE IF l = "T" /\ r = "T" THEN "T" ELSE "U"

Selected(tbls, st) ==
    LET t == tbls[st.sql.table]
    IN {r \in t.rows : st.sql.where = <<>>
                       \/ eval_where(st.sql.where[1], st.binds, t.cols, r.vals) = "T"}

\* A prepared-statement handle: null when prepare gave none; cursor is the rid
\* of the row the statement stands on, 0 before the first row and again after
\* a step that returned no row (the next step then starts the statement over).
Stmt(null, sql, binds) ==
    [null |-> null, sql |-> sql, binds |-> binds, cursor |-> 0]

NoSql == Sql("", "", <<>>, <<>>, <<>>)

\* sqlite3_step of a SELECT handle; fault is an engine fault during the step.
step_select(tbls, st, fault) ==
    LET ahead == {r.rid : r \in {x \in Selected(tbls, st) : x.rid > st.cursor}}
    IN IF st.null THEN [rc |-> "SQLITE_MISUSE", st |-> st]
       ELSE IF fault
            THEN [rc |-> "SQLITE_IOERR", st |-> [st EXCEPT !.cursor = 0]]
       ELSE IF ahead = {}
            THEN [rc |-> "SQLITE_DONE", st |-> [st EXCEPT !.cursor = 0]]
       ELSE [rc |-> "SQLITE_ROW",
             st |-> [st EXCEPT !.cursor = Min(ahead)]]

\* The column values of the row a SELECT handle stands on, in SELECT order.
current_row(tbls, st) ==
    LET t == tbls[st.sql.table]
        r == CHOOSE x \in t.rows : x.rid = st.cursor
    IN [k \in 1..Len(st.sql.cols) |-> r.vals[ColPos(t.cols, st.sql.cols[k].name)]]

(***************************************************************************)
(* The program state.                                                      *)
(***************************************************************************)
VARIABLES
    pstate,     \* "running", "unwinding" (after a panic) or "aborted"
    adaptor,    \* the SQLiteAdaptor value: "unopened", "alive" or "dropped"
    conn,       \* the engine's connection: "none", "open", "failed", "closed"
    closeCalls, \* the sqlite3_close calls made
    tables,     \* the engine's tables, by schema name
    iters,      \* the SQLiteRowIterator values created, by creation order
    last        \* the last operation and what it returned to its caller

vars == <<pstate, adaptor, conn, closeCalls, tables, iters, last>>

\* A SQLiteRowIterator<T>: its handle (T is the handle's table), the
\* sqlite3_finalize calls made on the handle, and the rids of the rows it has
\* yielded since its statement last started.
NoIter ==
    [state |-> "unused", stmt |-> Stmt(TRUE, NoSql, <<>>), finalized |-> 0,
     yielded |-> <<>>]

NoLast ==
    [op |-> "", T |-> "", ret |-> "", failed |-> FALSE, trace |-> <<>>,
     record |-> <<>>, appended |-> 0, it |-> 0, stepR |-> "", rid |-> 0,
     row |-> <<>>, collected |-> <<>>, answer |-> NoAnswer]

Call(call, pos, val, rc) == [call |-> call, pos |-> pos, val |-> val, rc |-> rc]

RECURSIVE SumRows(_, _)
SumRows(tbls, S) ==
    IF S = {} THEN 0
    ELSE LET T == CHOOSE x \in S : TRUE
         IN Cardinality(tbls[T].rows) + SumRows(tbls, S \ {T})

TotalRows == SumRows(tables, Schemas)

Init ==
    /\ pstate = "running"
    /\ adaptor = "unopened"
    /\ conn = "none"
    /\ closeCalls = 0
    /\ tables = [T \in Schemas |-> NoTable]
    /\ iters = [i \in 1..MaxIters |-> NoIter]
    /\ last = NoLast

(***************************************************************************)
(* SQLiteAdaptor::open: the result of sqlite3_open is not looked at.       *)
(***************************************************************************)
open_result(r) == "Adaptor"

Open ==
    /\ pstate = "running"
    /\ adaptor = "unopened"
    /\ \E ok \in BOOLEAN :
          LET r == IF ok THEN "SQLITE_OK" ELSE "SQLITE_CANTOPEN"
          IN /\ conn' = IF ok THEN "open" ELSE "failed"
             /\ last' = [NoLast EXCEPT !.op = "open", !.ret = open_result(r),
                            !.failed = ~ok,
                            !.trace = <<Call("sqlite3_open", 0, NullV, r)>>]
    /\ adaptor' = "alive"
    /\ UNCHANGED <<pstate, closeCalls, tables, iters>>

(***************************************************************************)
(* impl Drop for SQLiteAdaptor: sqlite3_close, which leaves the connection *)
(* open (SQLITE_BUSY) while a statement of it is not finalized.            *)
(***************************************************************************)
Unfinalized ==
    {i \in 1..MaxIters : iters[i].state = "alive" /\ ~iters[i].stmt.null}

sqlite3_close(c) ==
    IF c = "open" /\ Unfinalized # {} THEN "open" ELSE "closed"

DropAdaptor ==
    /\ pstate \in {"running", "unwinding"}
    /\ adaptor = "alive"
    /\ adaptor' = "dropped"
    /\ conn' = sqlite3_close(conn)
    /\ closeCalls' = closeCalls + 1
    /\ last' = [NoLast EXCEPT !.op = "drop_adaptor",
                   !.failed = (sqlite3_close(conn) # "closed"),
                   !.trace = <<Call("sqlite3_close", 0, NullV,
                                    IF sqlite3_close(conn) = "closed"
                                    THEN "SQLITE_OK" ELSE "SQLITE_BUSY")>>]
    /\ UNCHANGED <<pstate, tables, iters>>

(***************************************************************************)
(* create_table_for_schema: prepare, step, finalize; Ok(()) whatever the   *)
(* engine answered.                                                        *)
(***************************************************************************)
\* A creation that reports every call as failed.
create_table_result_refusing(r, r2) == "Err"

create_table_result(r, r2) == "Ok"

CreateTableForSchema(T) ==
    /\ pstate = "running"
    /\ adaptor = "alive"
    /\ LET sql == get_create_table_stmt_code(T, get_fields(T))
           ok == sqlite3_prepare_v2(conn, tables, sql)
           r == IF ok THEN "SQLITE_OK" ELSE "SQLITE_ERROR"
           r2 == IF ok THEN "SQLITE_DONE" ELSE "SQLITE_MISUSE"
       IN /\ tables' = IF ok THEN exec_ddl(tables, sql) ELSE tables
          /\ last' = [NoLast EXCEPT !.op = "create_table", !.T = T,
                         !.ret = create_table_result(r, r2),
                         !.failed = (r # "SQLITE_OK" \/ r2 # "SQLITE_DONE"),
                         !.trace = << Call("sqlite3_prepare_v2", 0, NullV, r),
                                      Call("sqlite3_step", 0, NullV, r2),
                                      Call("sqlite3_finalize", 0, NullV, "SQLITE_OK") >>]
    /\ UNCHANGED <<pstate, adaptor, conn, closeCalls, iters>>

(***************************************************************************)
(* insert_record: prepare, one bind per value of get_values at position    *)
(* ii+1 (ii counted from 0), step, finalize; Ok(()) whatever the engine    *)
(* answered.                                                               *)
(***************************************************************************)
bind_param(db_data_box, i, ok) ==
    LET rc == IF ok THEN "SQLITE_OK" ELSE "SQLITE_MISUSE"
    IN CASE db_data_box.type = "Int" ->
                Call("sqlite3_bind_int64", i, IntV(db_data_box.i), rc)
         [] db_data_box.type \in {"NullableInt", "RowID"} ->
                IF ~db_data_box.null
                THEN Call("sqlite3_bind_int64", i, IntV(db_data_box.i), rc)
                ELSE Call("sqlite3_bind_null", i, NullV, rc)
         [] db_data_box.type \in {"Text", "NullableText"} ->
                Call("sqlite3_bind_text", i,
                     IF db_data_box.null THEN NullV ELSE TextV(db_data_box.s), rc)

insert_record_result(r, binds, r2) == "Ok"

\* The callers insert distinct records: one whose field values (the RowID
\* aside) a stored row already has is not inserted again.
AlreadyStored(T, record) ==
    \E row \in tables[T].rows :
        \A k \in 1..Len(record) :
            \/ get_fields(T)[k].type = "RowID"
            \/ row.vals[k] = bind_param(get_values(T, record)[k], k, TRUE).val

InsertRecord(T, record) ==
    /\ pstate = "running"
    /\ adaptor = "alive"
    /\ TotalRows < MaxRows
    /\ ~AlreadyStored(T, record)
    /\ LET sql == get_insert_value_stmt_code(T, get_fields(T))
           ok == sqlite3_prepare_v2(conn, tables, sql)
           r == IF ok THEN "SQLITE_OK" ELSE "SQLITE_ERROR"
           params == get_values(T, record)
           binds == [ii \in 1..Len(params) |-> bind_param(params[ii], ii, ok)]
           bound == [p \in 1..Len(sql.params) |->
                       IF \E k \in 1..Len(binds) : binds[k].pos = p
                       THEN binds[CHOOSE k \in 1..Len(binds) : binds[k].pos = p].val
                       ELSE NullV]
       IN \E res \in {IF ok THEN exec_insert(tables, sql, bound)
                       ELSE [rc |-> "SQLITE_MISUSE", tables |-> tables]} :
          /\ tables' = res.tables
          /\ last' = [NoLast EXCEPT !.op = "insert", !.T = T,
                         !.ret = insert_record_result(r, binds, res.rc),
                         !.failed = (~ok \/ res.rc # "SQLITE_DONE"),
                         !.record = record,
                         !.appended = SumRows(res.tables, Schemas) - TotalRows,
                         !.rid = Max({x.rid : x \in res.tables[T].rows \ tables[T].rows}),
                         !.trace = << Call("sqlite3_prepare_v2", 0, NullV, r) >>
                                   \o binds
                                   \o << Call("sqlite3_step", 0, NullV, res.rc),
                                         Call("sqlite3_finalize", 0, NullV, "SQLITE_OK") >>]
    /\ UNCHANGED <<pstate, adaptor, conn, closeCalls, iters>>

(***************************************************************************)
(* query_all and query_with_cond: prepare, and hand the handle (null when  *)
(* prepare failed) to a new SQLiteRowIterator; nothing is stepped yet.     *)
(***************************************************************************)
\* At most MaxIters iterators exist at a time; the place of a dropped one is
\* taken by the next one created.
FreeSlots == {i \in 1..MaxIters : iters[i].state \in {"unused", "dropped"}}

query_result(r) == "Ok"

NewIterator(ok, sql, binds) ==
    [state |-> "alive",
     stmt |-> IF ok THEN Stmt(FALSE, sql, binds) ELSE Stmt(TRUE, NoSql, <<>>),
     finalized |-> 0, yielded |-> <<>>]

QueryAll(T) ==
    /\ pstate = "running"
    /\ adaptor = "alive"
    /\ FreeSlots # {}
    /\ LET sql == get_query_stmt(T, get_fields(T))
           ok == sqlite3_prepare_v2(conn, tables, sql)
           r == IF ok THEN "SQLITE_OK" ELSE "SQLITE_ERROR"
           i == Min(FreeSlots)
       IN /\ iters' = [iters EXCEPT ![i] = NewIterator(ok, sql, <<>>)]
          /\ last' = [NoLast EXCEPT !.op = "query_all", !.T = T, !.it = i,
                         !.ret = query_result(r), !.failed = ~ok,
                         !.trace = << Call("sqlite3_prepare_v2", 0, NullV, r) >>]
    /\ UNCHANGED <<pstate, adaptor, conn, closeCalls, tables>>

\* The conditions the callers query with.
OrCond == or(is_null("stock"), integer_equal_to("stock", 20))

Conds(T) ==
    IF T = "Counter" THEN {OrCond} ELSE {}

QueryWithCond(T, c) ==
    /\ pstate = "running"
    /\ adaptor = "alive"
    /\ FreeSlots # {}
    /\ LET sql == get_query_with_cond_stmt(T, get_fields(T), c)
           ok == sqlite3_prepare_v2(conn, tables, sql)
           r == IF ok THEN "SQLITE_OK" ELSE "SQLITE_ERROR"
           i == Min(FreeSlots)
           binds == render_cond(c, 1).binds
       IN /\ iters' = [iters EXCEPT ![i] = NewIterator(ok, sql, binds)]
          /\ last' = [NoLast EXCEPT !.op = "query_with_cond", !.T = T, !.it = i,
                         !.ret = query_result(r), !.failed = ~ok,
                         !.trace = << Call("sqlite3_prepare_v2", 0, NullV, r) >>
                                   \o [k \in 1..Len(binds) |->
                                         Call("bind", k, binds[k],
                                              IF ok THEN "SQLITE_OK" ELSE "SQLITE_MISUSE")]]
    /\ UNCHANGED <<pstate, adaptor, conn, closeCalls, tables>>

(***************************************************************************)
(* SQLiteRowIterator::next: step, then by the result: None on SQLITE_DONE, *)
(* a decoded row on SQLITE_ROW, None on anything else.                     *)
(***************************************************************************)
\* An advance that takes a row for the end of the rows.
next_result_ending_at_row(r) ==
    CASE r = "SQLITE_DONE" -> "None"
      [] r = "SQLITE_ROW" -> "None"
      [] OTHER -> "None"

next_result(r) ==
    CASE r = "SQLITE_DONE" -> "None"
      [] r = "SQLITE_ROW" -> "Some"
      [] OTHER -> "None"

\* sqlite3_column_int64: 0 for a NULL column.
sqlite3_column_int64(v) == IF v.t = "INTEGER" THEN v.i ELSE 0

\* sqlite3_column_text gives the null pointer for a NULL column, and strlen of
\* it is undefined behaviour.
TextOfNull(field_type, v) ==
    field_type \in {"Text", "NullableText"} /\ v.t = "NULL"

\* The box next() pushes for one column.
decode_column(field_type, v) ==
    CASE field_type \in {"Int", "NullableInt"} ->
            Box("Int", FALSE, sqlite3_column_int64(v), "")
      [] field_type = "RowID" ->
            Box("RowID", FALSE, sqlite3_column_int64(v), "")
      [] field_type \in {"Text", "NullableText"} ->
            Box("Text", FALSE, 0, v.s)

IterNext(i) ==
    /\ pstate = "running"
    /\ iters[i].state = "alive"
    /\ \E fault \in BOOLEAN :
          \E s \in {step_select(tables, iters[i].stmt, fault)} :
          LET it == iters[i]
              T == it.stmt.sql.table
              fields == IF T \in Schemas THEN get_fields(T) ELSE <<>>
              cols == IF s.rc = "SQLITE_ROW" THEN current_row(tables, s.st) ELSE <<>>
              undefined == \E k \in 1..Len(cols) : TextOfNull(fields[k].type, cols[k])
          IN \E ub \in IF undefined THEN {"abort", "empty"} ELSE {"defined"} :
                LET values == [k \in 1..Len(cols) |-> decode_column(fields[k].type, cols[k])]
                    ret == IF ub = "abort" THEN "Abort" ELSE next_result(s.rc)
                IN /\ iters' = [iters EXCEPT ![i] =
                          [it EXCEPT !.stmt = s.st,
                                     !.yielded = IF ret = "Some"
                                                 THEN Append(@, s.st.cursor)
                                                 ELSE <<>>]]
                   /\ pstate' = IF ub = "abort" THEN "aborted" ELSE pstate
                   /\ last' = [NoLast EXCEPT !.op = "next", !.T = T, !.it = i,
                                  !.ret = ret, !.stepR = s.rc,
                                  !.failed = (s.rc \notin {"SQLITE_ROW", "SQLITE_DONE"}),
                                  !.collected = IF ret = "None" THEN it.yielded
                                                ELSE <<>>,
                                  !.rid = IF ret = "Some" THEN s.st.cursor ELSE 0,
                                  !.row = IF ret = "Some"
                                          THEN create_with_values(T, values)
                                          ELSE <<>>,
                                  !.trace = << Call("sqlite3_step", 0, NullV, s.rc) >>]
    /\ UNCHANGED <<adaptor, conn, closeCalls, tables>>

(***************************************************************************)
(* impl Drop for SQLiteRowIterator: sqlite3_finalize of the handle.        *)
(***************************************************************************)
\* A disposal that lets the handle go without finalizing it.
drop_row_iterator_leaking(it) == [NoIter EXCEPT !.state = "dropped"]

\* What is left of the value is its handle's count of sqlite3_finalize calls.
drop_row_iterator(it) ==
    [NoIter EXCEPT !.state = "dropped", !.finalized = it.finalized + 1]

DropIterator(i) ==
    /\ pstate \in {"running", "unwinding"}
    /\ iters[i].state = "alive"
    /\ iters' = [iters EXCEPT ![i] = drop_row_iterator(iters[i])]
    /\ last' = [NoLast EXCEPT !.op = "drop_iterator", !.it = i,
                   !.T = iters[i].stmt.sql.table, !.collected = iters[i].yielded,
                   !.trace = << Call("sqlite3_finalize", 0, NullV, "SQLITE_OK") >>]
    /\ UNCHANGED <<pstate, adaptor, conn, closeCalls, tables>>

(***************************************************************************)
(* A caller asking a record for its RowID field; a panic unwinds.          *)
(***************************************************************************)
GetRowIdField(T, record) ==
    /\ pstate = "running"
    /\ LET answer == get_row_id_field(T, record)
       IN /\ pstate' = IF answer.kind = "Panic" THEN "unwinding" ELSE pstate
          /\ last' = [NoLast EXCEPT !.op = "get_row_id_field", !.T = T,
                         !.record = record, !.ret = answer.kind,
                         !.answer = answer]
    /\ UNCHANGED <<adaptor, conn, closeCalls, tables, iters>>

Next ==
    \/ Open
    \/ DropAdaptor
    \/ \E T \in Schemas : CreateTableForSchema(T)
    \/ \E T \in Schemas : \E record \in Records(T) : InsertRecord(T, record)
    \/ \E T \in Schemas : QueryAll(T)
    \/ \E T \in Schemas : \E c \in Conds(T) : QueryWithCond(T, c)
    \/ \E i \in 1..MaxIters : IterNext(i)
    \/ \E i \in 1..MaxIters : DropIterator(i)
    \/ \E T \in Schemas : \E record \in Records(T) : GetRowIdField(T, record)

Spec == Init /\ [][Next]_vars

(***************************************************************************)
(* The claims.                                                             *)
(***************************************************************************)
IsNext == last.op = "next"

\* The rids of S in increasing order.
RECURSIVE Ascending(_)
Ascending(S) ==
    IF S = {} THEN <<>> ELSE <<Min(S)>> \o Ascending(S \ {Min(S)})

\* C1: over the life of every Row Sequence sqlite3_finalize is called on its
\* statement handle exactly once: not while the sequence is alive, once by its
\* disposal, never a second time, whatever the rows consumed before.
C1_FinalizedExactlyOnce ==
    \A i \in 1..MaxIters :
        /\ iters[i].finalized <= 1
        /\ iters[i].state = "alive" => iters[i].finalized = 0
        /\ iters[i].state = "dropped" => iters[i].finalized = 1

\* A sequence disposed after it yielded rows and before its end.
C1_Witness ==
    /\ last.op = "drop_iterator"
    /\ Len(last.collected) >= 1
    /\ iters[last.it].state = "dropped"
    /\ iters[last.it].finalized = 1

\* C2: an advance whose step of its prepared statement returned neither
\* SQLITE_ROW nor SQLITE_DONE gives its caller an error outcome, never "no more
\* rows" (None).
C2_FaultSurfacesAsError ==
    (IsNext /\ ~iters[last.it].stmt.null
        /\ last.stepR \notin {"SQLITE_ROW", "SQLITE_DONE"})
        => last.ret \notin {"None", "Some"}

\* C3: an insert stores NULL where the record's NullableInt or NullableText
\* field is None, and a row a query yields has None where the stored column is
\* NULL and Some(x) where it holds x.
C3_NullRoundTrip ==
    /\ (last.op = "insert" /\ last.appended = 1) =>
          LET stored == CHOOSE x \in tables[last.T].rows : x.rid = last.rid
          IN \A k \in 1..Len(last.record) :
                (get_fields(last.T)[k].type \in {"NullableInt", "NullableText"}
                 /\ last.record[k] = RNone) => stored.vals[k] = NullV
    /\ (IsNext /\ last.T \in Schemas) => last.ret # "Abort"
    /\ (IsNext /\ last.ret = "Some") =>
          LET stored == CHOOSE x \in tables[last.T].rows : x.rid = last.rid
          IN \A k \in 1..Len(last.row) :
                get_fields(last.T)[k].type \in {"NullableInt", "NullableText"} =>
                    last.row[k] = CASE stored.vals[k].t = "NULL" -> RNone
                                    [] stored.vals[k].t = "INTEGER" ->
                                          RSomeInt(stored.vals[k].i)
                                    [] stored.vals[k].t = "TEXT" ->
                                          RSomeText(stored.vals[k].s)

\* C4: the connection is closed exactly once by the adaptor's disposal, with no
\* statement of a Row Sequence left to finalize, and no Row Sequence is stepped
\* once the adaptor is gone.
C4_CloseAfterSequences ==
    /\ closeCalls <= 1
    /\ adaptor = "dropped" =>
          (closeCalls = 1 /\ conn = "closed" /\ Unfinalized = {})
    /\ (IsNext /\ last.stepR # "SQLITE_MISUSE") => adaptor # "dropped"

\* C5: open, create_table, insert and query_all return an error outcome
\* whenever a native call they made failed.
C5_FailuresSurface ==
    (last.op \in {"open", "create_table", "insert", "query_all"} /\ last.failed)
        => last.ret = "Err"

\* C6: create_table of a schema with more than one RowID field is rejected, so
\* that no insert or query runs on such a schema; get_row_id_field gives None
\* for a schema without RowID field and the field's name and value for a schema
\* with one.
C6_RowIdUniquenessAtRegistration ==
    /\ (last.op = "create_table" /\ RowIDCount(last.T) > 1) =>
          last.ret \in {"Err", "Panic"}
    /\ (last.op \in {"insert", "query_all", "query_with_cond"}) =>
          RowIDCount(last.T) <= 1
    /\ (last.op = "get_row_id_field" /\ RowIDCount(last.T) = 0) =>
          last.answer = NoAnswer
    /\ (last.op = "get_row_id_field" /\ RowIDCount(last.T) = 1) =>
          \E k \in 1..Len(last.record) :
              /\ get_fields(last.T)[k].type = "RowID"
              /\ last.answer = [kind |-> "Some", name |-> get_fields(last.T)[k].name,
                                value |-> last.record[k]]

\* The rids of the Counter rows whose stock is NULL or 20.
NullOrTwenty ==
    {x.rid : x \in {y \in tables["Counter"].rows :
                       y.vals[ColPos(tables["Counter"].cols, "stock")]
                           \in {NullV, IntV(20)}}}

HasOrCond(i) ==
    /\ iters[i].state = "alive"
    /\ ~iters[i].stmt.null
    /\ iters[i].stmt.sql.where = <<render_cond(OrCond, 1).expr>>

\* C7: a query with or(is_null(stock), equals_integer(stock, 20)) yields the
\* stored rows whose stock is NULL or 20 and no other row, each once: what it
\* has yielded is at any time a beginning of those rows in rid order, and all
\* of them when the engine reports the end.
C7_OrCondYieldsExactlyMatching ==
    \A i \in 1..MaxIters :
        HasOrCond(i) =>
            /\ \E n \in 0..Cardinality(NullOrTwenty) :
                  iters[i].yielded = SubSeq(Ascending(NullOrTwenty), 1, n)
            /\ (IsNext /\ last.it = i /\ last.stepR = "SQLITE_DONE") =>
                  last.collected = Ascending(NullOrTwenty)

\* milk, cream and apple stored, and the query has yielded milk and cream and
\* reached its end.
C7_Witness ==
    /\ IsNext /\ last.stepR = "SQLITE_DONE" /\ HasOrCond(last.it)
    /\ {x.vals : x \in tables["Counter"].rows} =
          { <<TextV("milk"), IntV(20)>>, <<TextV("cream"), NullV>>,
            <<TextV("apple"), IntV(30)>> }
    /\ Len(last.collected) = 2

\* C8: create_table of a schema whose table exists succeeds and leaves every
\* table, its columns and its rows, as it was.
C8_CreateTableIdempotent ==
    [][\A T \in Schemas :
          (tables[T].exists /\ last'.op = "create_table" /\ last'.T = T)
              => (last'.ret = "Ok" /\ tables' = tables)]_vars

\* create_table returned on a table that holds rows.
C8_Witness ==
    /\ last.op = "create_table"
    /\ last.ret = "Ok"
    /\ tables[last.T].rows # {}

\* C9: once an advance of a Row Sequence has reported the end of the rows
\* (None on SQLITE_DONE), the next advance of it reports None as well, yields no
\* row, and does not step the statement into a new execution that has a row.
C9_ExhaustedIsTerminal ==
    [][(IsNext /\ last.stepR = "SQLITE_DONE" /\ last.ret = "None"
            /\ last'.op = "next" /\ last'.it = last.it)
          => (last'.ret = "None" /\ last'.row = <<>>
              /\ last'.stepR # "SQLITE_ROW")]_vars

\* The column value the field value v of a field of the given type stands for.
ColumnValueOf(type, v) ==
    CASE v.t \in {"None", "NEW"} -> NullV
      [] v.t \in {"i64", "ID"} -> IntV(v.i)
      [] v.t = "String" -> TextV(v.s)
      [] v.t = "Some" -> IF type = "NullableInt" THEN IntV(v.i) ELSE TextV(v.s)

\* C10: an insert prepares, binds value k of get_values at position k (counted
\* from 1) in field order, steps once and finalizes once, in this order, and
\* one that returns Ok has appended exactly one row; create_table prepares,
\* steps once and finalizes once.
C10_StatementProtocol ==
    /\ last.op = "insert" =>
          LET n == Len(get_fields(last.T))
              tr == last.trace
          IN /\ Len(tr) = n + 3
             /\ tr[1].call = "sqlite3_prepare_v2"
             /\ \A k \in 1..n :
                   /\ tr[k + 1].call \in {"sqlite3_bind_int64", "sqlite3_bind_null",
                                          "sqlite3_bind_text"}
                   /\ tr[k + 1].pos = k
                   /\ tr[k + 1].val =
                         ColumnValueOf(get_fields(last.T)[k].type, last.record[k])
             /\ tr[n + 2].call = "sqlite3_step"
             /\ tr[n + 3].call = "sqlite3_finalize"
             /\ last.ret = "Ok" => last.appended = 1
    /\ last.op = "create_table" =>
          [k \in 1..Len(last.trace) |-> last.trace[k].call] =
              <<"sqlite3_prepare_v2", "sqlite3_step", "sqlite3_finalize">>

====
